---- MODULE Spec2Model ----
(***************************************************************************)
(* Model of the LangGraph RAG application: the configuration module, the   *)
(* retriever, the relevance grader, the generator, the four-node workflow  *)
(* graph and the command-line loop of app/main.py.                         *)
(*                                                                         *)
(* Python strings that the code inspects (input lines, classifier          *)
(* responses) are sequences of one-character strings, so that str.lower,   *)
(* == and the `in` substring test are computed and not assumed.            *)
(***************************************************************************)
EXTENDS Integers, Sequences, FiniteSets, TLC

(***************************************************************************)
(* Bounds of the model.                                                    *)
(***************************************************************************)
\* number of questions asked in one session
MaxQuestions == 2
\* length of the generated classifier responses
MaxRespLen == 4
\* size of the large pre-existing index
BigIndex == 10

(***************************************************************************)
(* Program constants.                                                      *)
(***************************************************************************)
\* retriever.py: def retrieve_documents(vectorstore, query, k = 4)
DefaultK == 4
\* graph.py: the string the fallback node writes
FallbackText == "Sorry, I couldn't find relevant information."
\* langgraph.graph.END
END == "__end__"

(***************************************************************************)
(* str.lower and the substring test, on sequences of characters.           *)
(***************************************************************************)
UpperChars == <<"A","B","C","D","E","F","G","H","I","J","K","L","M",
                "N","O","P","Q","R","S","T","U","V","W","X","Y","Z">>
LowerChars == <<"a","b","c","d","e","f","g","h","i","j","k","l","m",
                "n","o","p","q","r","s","t","u","v","w","x","y","z">>

LowerChar(c) ==
    IF \E i \in 1..Len(UpperChars) : UpperChars[i] = c
    THEN LowerChars[CHOOSE i \in 1..Len(UpperChars) : UpperChars[i] = c]
    ELSE c

\* a lower() that forgets to fold anything
lower_identity(s) == s

\* str.lower()
lower(s) == [i \in 1..Len(s) |-> LowerChar(s[i])]

\* needle occurs in hay starting at position i
MatchAt(needle, hay, i) ==
    /\ i + Len(needle) - 1 <= Len(hay)
    /\ \A j \in 1..Len(needle) : hay[i + j - 1] = needle[j]

RECURSIVE ScanFrom(_, _, _)
\* left-to-right search for needle in hay, from position i on
ScanFrom(needle, hay, i) ==
    IF i + Len(needle) - 1 > Len(hay) THEN FALSE
    ELSE IF MatchAt(needle, hay, i) THEN TRUE
    ELSE ScanFrom(needle, hay, i + 1)

\* Python's `needle in hay`
Contains(needle, hay) == ScanFrom(needle, hay, 1)

YES == <<"y","e","s">>
EXIT == <<"e","x","i","t">>


(***************************************************************************)
(* Inputs.                                                                 *)
(***************************************************************************)
\* lines typed at the prompt
Lines ==
    { EXIT,
      <<"E","X","I","T">>,
      <<"E","x","i","T">>,
      <<>>,
      <<" ","e","x","i","t">>,
      <<"e","x","i","t","s">>,
      <<"h","i">> }

RespAlphabet == {"Y", "y", "e", "s", "n"}

\* every response over RespAlphabet of length at most n
RECURSIVE StringsUpTo(_)
StringsUpTo(n) ==
    IF n = 0 THEN { <<>> }
    ELSE LET shorter == StringsUpTo(n - 1)
         IN  shorter \cup { Append(s, c) : s \in shorter, c \in RespAlphabet }

\* "Yes, the context is sufficient."
RespYesSufficient ==
    <<"Y","e","s",","," ","t","h","e"," ","c","o","n","t","e","x","t"," ",
      "i","s"," ","s","u","f","f","i","c","i","e","n","t",".">>
\* "No."
RespNo == <<"N","o",".">>
\* "Yesterday's context is unrelated."
RespYesterday ==
    <<"Y","e","s","t","e","r","d","a","y","'","s"," ","c","o","n","t","e","x","t"," ",
      "i","s"," ","u","n","r","e","l","a","t","e","d",".">>

\* responses of the classifier seen by the whole-program specification
SampleResponses ==
    { RespYesSufficient, RespNo, RespYesterday, YES, <<"Y","E","S">>, <<"n","o">> }

\* responses of the classifier seen by the grader specification
AllResponses == SampleResponses \cup StringsUpTo(MaxRespLen)

\* texts the generation model may answer with
Answers == { "Paris", "I don't know", FallbackText }

(***************************************************************************)
(* Documents and the vector index.  A document is identified by its        *)
(* page_content; the index is the set of documents of the collection.      *)
(***************************************************************************)
\* main.py load_sample_docs: the single document read from data/sample_docs.txt
SeedDoc == 0

\* collections a chroma_db directory left by an earlier run may hold
OldIndexes == { {}, {SeedDoc}, 1..BigIndex }

\* stand-in for the embedding distance of the external index: any total
\* order per query will do, this one differs from query to query
Distance(query, d) == ((d * (Len(query) + 1)) % 7) * (BigIndex + 2) + d

\* the collection in similarity order for the query: the document at place i
\* has i - 1 documents nearer to the query than itself
Ranked(index, query) ==
    [ i \in 1..Cardinality(index) |->
        CHOOSE x \in index :
            Cardinality({ y \in index : Distance(query, y) < Distance(query, x) }) = i - 1 ]

Min(a, b) == IF a <= b THEN a ELSE b

\* Chroma.similarity_search(query, k): the k nearest documents, nearest first
similarity_search(index, query, k) ==
    SubSeq(Ranked(index, query), 1, Min(k, Cardinality(index)))

\* the collection after a call of the index library: a similarity search
\* reads it, add_documents (and from_documents) puts documents into it
IndexAfter(index, call) ==
    IF call.op = "add_documents" THEN index \cup call.documents ELSE index

(***************************************************************************)
(* config.py                                                               *)
(***************************************************************************)
\* values of OPENAI_API_KEY in the environment and in the .env file
KeyValues == { "unset", "empty", "sk-key" }

\* load_dotenv(): a variable of .env is put into os.environ unless os.environ
\* already has it (override is off)
load_dotenv(env, file) == IF env = "unset" THEN file ELSE env

\* a check that only notices an unset variable
ConfigOK_unset_only(key) == key # "unset"

\* config.py: `if not OPENAI_API_KEY: raise ValueError`
ConfigOK(key) == key \notin { "unset", "empty" }

ConfigError == "ValueError: OPENAI_API_KEY is not set. Please configure it in .env"

(***************************************************************************)
(* retriever.py, grader.py, generator.py.  An operator that models a       *)
(* function calling an external service gives the call it makes and the    *)
(* value it returns.                                                       *)
(***************************************************************************)
\* a retriever that asks the index for one document too few
retrieve_documents_short(vectorstore, query, k) ==
    LET found == similarity_search(vectorstore, query, k - 1)
    IN  [ call  |-> [op |-> "similarity_search", query |-> query, k |-> k - 1,
                     returned |-> found],
          value |-> found ]

\* a retriever that also stores what it was asked as a new document
retrieve_documents_stores_query(vectorstore, query, k) ==
    LET found == similarity_search(vectorstore, query, k)
    IN  [ call  |-> [op |-> "add_documents", query |-> query, k |-> k,
                     returned |-> found, documents |-> {BigIndex + 1}],
          value |-> found ]

\* retriever.py retrieve_documents
retrieve_documents(vectorstore, query, k) ==
    LET found == similarity_search(vectorstore, query, k)
    IN  [ call  |-> [op |-> "similarity_search", query |-> query, k |-> k,
                     returned |-> found],
          value |-> found ]

\* sep.join([doc.page_content for doc in documents]): the contents in order,
\* with the separator between neighbours
Join(sep, documents) == [ sep |-> sep, parts |-> documents ]

\* a grader that compares the response without folding its case
grade_relevance_case_sensitive(question, documents, response) ==
    [ call  |-> [question |-> question, documents |-> documents,
                 context |-> Join("\n", documents), response |-> response],
      value |-> Contains(YES, lower_identity(response)) ]

\* grader.py grade_relevance; response is response.content of the classifier
grade_relevance(question, documents, response) ==
    [ call  |-> [question |-> question, documents |-> documents,
                 context |-> Join("\n", documents), response |-> response],
      value |-> Contains(YES, lower(response)) ]

\* generator.py generate_answer; response is response.content of the model
generate_answer(question, documents, response) ==
    [ call  |-> [question |-> question, documents |-> documents,
                 context |-> Join("\n\n", documents), response |-> response],
      value |-> response ]

(***************************************************************************)
(* graph.py: the node functions give the partial update of the state.      *)
(***************************************************************************)
\* graph.py retrieve
retrieve(state, vectorstore) ==
    LET r == retrieve_documents(vectorstore, state.question, DefaultK)
    IN  [ call |-> r.call, update |-> [retrieved_docs |-> r.value] ]

\* a grade node that also clears the documents it has graded
grade_clears_docs(state, response) ==
    LET r == grade_relevance(state.question, state.retrieved_docs, response)
    IN  [ call |-> r.call,
          update |-> [is_relevant |-> r.value, retrieved_docs |-> <<>>] ]

\* a grade node that takes an empty retrieval for irrelevant
grade_empty_is_irrelevant(state, response) ==
    LET r == grade_relevance(state.question, state.retrieved_docs, response)
    IN  [ call |-> r.call,
          update |-> [is_relevant |-> (state.retrieved_docs # <<>> /\ r.value)] ]

\* graph.py grade
grade(state, response) ==
    LET r == grade_relevance(state.question, state.retrieved_docs, response)
    IN  [ call |-> r.call, update |-> [is_relevant |-> r.value] ]

\* a generate node that answers from no documents
generate_without_docs(state, response) ==
    LET r == generate_answer(state.question, <<>>, response)
    IN  [ call |-> r.call, update |-> [generation |-> r.value] ]

\* graph.py generate
generate(state, response) ==
    LET r == generate_answer(state.question, state.retrieved_docs, response)
    IN  [ call |-> r.call, update |-> [generation |-> r.value] ]

\* a fallback node with another wording
fallback_reworded(state) == [ update |-> [generation |-> "No relevant information."] ]

\* graph.py fallback
fallback(state) == [ update |-> [generation |-> FallbackText] ]

\* a router with its branches exchanged
Route_swapped(state) == IF state.is_relevant THEN "fallback" ELSE "generate"

\* graph.py build_graph: the lambda of add_conditional_edges
Route(state) == IF state.is_relevant THEN "generate" ELSE "fallback"

\* a graph whose retrieve node leads straight to generate
build_graph_skip_grade ==
    [ entry   |-> "retrieve",
      edges   |-> [retrieve |-> "generate", generate |-> END, fallback |-> END],
      mapping |-> [generate |-> "generate", fallback |-> "fallback"] ]

\* a graph whose fallback node hands over to generate instead of ending
build_graph_fallback_continues ==
    [ entry   |-> "retrieve",
      edges   |-> [retrieve |-> "grade", generate |-> END, fallback |-> "generate"],
      mapping |-> [generate |-> "generate", fallback |-> "fallback"] ]

\* graph.py build_graph: entry point, plain edges, and the path map of the
\* conditional edge that leaves grade
build_graph ==
    [ entry   |-> "retrieve",
      edges   |-> [retrieve |-> "grade", generate |-> END, fallback |-> END],
      mapping |-> [generate |-> "generate", fallback |-> "fallback"] ]

\* no compiled graph yet
NoGraph == [ entry |-> END, edges |-> <<>>, mapping |-> <<>> ]

\* the node the compiled graph runs after `node`, given the merged state
NextNode(graph, node, state) ==
    IF node \in DOMAIN graph.edges THEN graph.edges[node]
    ELSE graph.mapping[Route(state)]

(***************************************************************************)
(* State.                                                                  *)
(***************************************************************************)
VARIABLES
    pc,             \* where the process is
    environ,        \* OPENAI_API_KEY in os.environ
    dotenv,         \* OPENAI_API_KEY in the .env file
    dirAtStart,     \* whether ./chroma_db existed when the process started
    diskAtStart,    \* the persisted collection when the process started
    dirExists,      \* whether ./chroma_db exists
    disk,           \* the persisted collection
    vectorstore,    \* graph.py: the module-level handle
    built,          \* main.py: build_vector_store has run
    app,            \* main.py: the compiled graph
    prompts,        \* number of times the prompt was shown
    line,           \* the last line read
    invocations,    \* number of app.invoke calls
    state,          \* the RAGState of the current (or last) invocation
    node,           \* the node the graph runs next
    trace,          \* what the current invocation did, in order
    searchCalls,    \* similarity searches of the current invocation
    graderCalls,    \* classifier calls of the current invocation
    generatorCalls, \* generation calls of the current invocation
    printed,        \* the last answer printed
    error,          \* the exception that ended the process
    classifierMemo, \* what a deterministic classifier has answered, by prompt
    generatorMemo,  \* what a deterministic generation model has answered, by prompt
    history         \* the results of the invocations that have finished

vars == << pc, environ, dotenv, dirAtStart, diskAtStart, dirExists, disk, vectorstore, built,
           app, prompts, line, invocations, state, node, trace, searchCalls,
           graderCalls, generatorCalls, printed, error,
           classifierMemo, generatorMemo, history >>

detVars == << classifierMemo, generatorMemo, history >>
envVars == << environ, dotenv, dirAtStart, diskAtStart >>
indexVars == << dirExists, disk, vectorstore, built >>
loopVars == << prompts, line, invocations, printed >>
invokeVars == << state, node, trace, searchCalls, graderCalls, generatorCalls >>

NoHandle == [ loaded |-> FALSE, live |-> FALSE, snap |-> {} ]
NoError == "none"
NothingPrinted == "<nothing>"
EmptyState == <<>>

\* the collection a handle reads: either the persisted one, or the copy it
\* took when it was opened (both occur among releases of the index library)
View(vs) == IF vs.live THEN disk ELSE vs.snap

Init ==
    /\ pc = "start"
    /\ environ \in KeyValues
    /\ dotenv \in KeyValues
    /\ dirAtStart \in BOOLEAN
    /\ dirExists = dirAtStart
    /\ disk \in (IF dirAtStart THEN OldIndexes ELSE { {} })
    /\ diskAtStart = disk
    /\ vectorstore = NoHandle
    /\ built = FALSE
    /\ app = NoGraph
    /\ prompts = 0
    /\ line = <<>>
    /\ invocations = 0
    /\ state = EmptyState
    /\ node = END
    /\ trace = <<>>
    /\ searchCalls = <<>>
    /\ graderCalls = <<>>
    /\ generatorCalls = <<>>
    /\ printed = NothingPrinted
    /\ error = NoError
    /\ classifierMemo = {}
    /\ generatorMemo = {}
    /\ history = {}

(***************************************************************************)
(* Startup: the imports of main.py, then its __main__ block.               *)
(***************************************************************************)
\* main.py:8 imports app.retriever, which imports app.config: load_dotenv,
\* the read of the key and the check
ImportConfig ==
    /\ pc = "start"
    /\ environ' = load_dotenv(environ, dotenv)
    /\ IF ConfigOK(environ')
       THEN pc' = "import_graph" /\ error' = error
       ELSE pc' = "crashed" /\ error' = ConfigError
    /\ UNCHANGED << detVars, dotenv, dirAtStart, diskAtStart, indexVars, app, loopVars, invokeVars >>

\* main.py:9 imports app.graph, whose line 18 runs load_vector_store().
\* Opening a persistent collection may create its directory.
ImportGraph ==
    /\ pc = "import_graph"
    /\ \E creates \in BOOLEAN, live \in BOOLEAN :
          /\ dirExists' = (dirExists \/ creates)
          /\ vectorstore' = [ loaded |-> TRUE, live |-> live, snap |-> disk ]
    /\ pc' = "main"
    /\ UNCHANGED << envVars, detVars, disk, built, app, loopVars, invokeVars, error >>

\* main.py:22-24: the directory is absent, the seed file is read and the
\* collection is built from it and persisted
MainBuild ==
    /\ pc = "main"
    /\ ~dirExists
    /\ disk' = disk \cup {SeedDoc}
    /\ dirExists' = TRUE
    /\ built' = TRUE
    /\ pc' = "build_graph"
    /\ UNCHANGED << envVars, detVars, vectorstore, app, loopVars, invokeVars, error >>

\* main.py:22-24: reading the seed file or embedding it raises
MainBuildFails ==
    /\ pc = "main"
    /\ ~dirExists
    /\ pc' = "crashed"
    /\ error' = "build failed"
    /\ UNCHANGED << envVars, detVars, indexVars, app, loopVars, invokeVars >>

\* main.py:22: the directory exists, nothing is built
MainSkipBuild ==
    /\ pc = "main"
    /\ dirExists
    /\ pc' = "build_graph"
    /\ UNCHANGED << envVars, detVars, indexVars, app, loopVars, invokeVars, error >>

\* main.py:26
BuildGraph ==
    /\ pc = "build_graph"
    /\ app' = build_graph
    /\ pc' = "prompt"
    /\ UNCHANGED << envVars, detVars, indexVars, loopVars, invokeVars, error >>

(***************************************************************************)
(* The loop of main.py.                                                    *)
(***************************************************************************)
\* an exit test that does not fold the case
IsExit_case_sensitive(l) == l = EXIT

\* main.py:30
IsExit(l) == lower(l) = EXIT

\* main.py:29-31: the prompt is shown, the line read ends the loop
ReadExit ==
    /\ pc = "prompt"
    /\ \E l \in Lines :
          /\ IsExit(l)
          /\ line' = l
    /\ prompts' = prompts + 1
    /\ pc' = "exited"
    /\ UNCHANGED << envVars, detVars, indexVars, app, invocations, printed, invokeVars, error >>

\* an invocation that is handed the dictionary of the one before it
StartState_reused(question) == [ question |-> question ] @@ state

\* main.py:33: the dictionary app.invoke is called with
StartState(question) == [ question |-> question ]

\* main.py:29-33: the prompt is shown, the line read is handed to app.invoke,
\* which starts at the entry point with only the question in the state
ReadQuestionFrom(lines, limit) ==
    /\ pc = "prompt"
    /\ invocations < limit
    /\ \E l \in lines :
          /\ ~IsExit(l)
          /\ line' = l
          /\ state' = StartState(l)
    /\ prompts' = prompts + 1
    /\ invocations' = invocations + 1
    /\ node' = app.entry
    /\ trace' = <<>>
    /\ searchCalls' = <<>>
    /\ graderCalls' = <<>>
    /\ generatorCalls' = <<>>
    /\ pc' = "node"
    /\ UNCHANGED << envVars, detVars, indexVars, app, printed, error >>

ReadQuestion == ReadQuestionFrom(Lines, MaxQuestions)

\* main.py:34
PrintAnswer ==
    /\ pc = "done"
    /\ printed' = state.generation
    /\ pc' = "prompt"
    /\ UNCHANGED << envVars, detVars, indexVars, app, prompts, line, invocations, invokeVars, error >>

(***************************************************************************)
(* One invocation of the compiled graph: a node runs, its update is merged *)
(* into the state, and the edge that leaves the node picks the next one.   *)
(***************************************************************************)
Event(ev, what, by) == [ ev |-> ev, what |-> what, by |-> by ]

RECURSIVE WriteEvents(_, _)
\* one write event per key of the update
WriteEvents(keys, by) ==
    IF keys = {} THEN <<>>
    ELSE LET key == CHOOSE x \in keys : TRUE
         IN  <<Event("write", key, by)>> \o WriteEvents(keys \ {key}, by)

\* the branch decision, taken where the node has no plain edge
BranchEvents(graph, n, merged) ==
    IF n \in DOMAIN graph.edges THEN <<>>
    ELSE <<Event("branch", NextNode(graph, n, merged), n)>>

\* the node n has returned `update` after the calls `calls`
Advance(n, update, calls) ==
    LET merged == update @@ state
        next   == NextNode(app, n, merged)
    IN  /\ state' = merged
        /\ trace' = trace \o <<Event("node", n, n)>> \o calls
                          \o WriteEvents(DOMAIN update, n)
                          \o BranchEvents(app, n, merged)
        /\ node' = next
        /\ pc' = IF next = END THEN "done" ELSE "node"

\* a node whose failed call is swallowed and answered with the fallback text
Raise_substitutes_fallback(n, what, err) ==
    /\ trace' = trace \o <<Event("node", n, n), Event("call", what, n),
                           Event("raise", what, n), Event("write", "generation", n)>>
    /\ pc' = "done"
    /\ error' = err
    /\ state' = [ generation |-> FallbackText ] @@ state
    /\ node' = END

\* the node n raised during its external call; main.py has no handler, the
\* exception leaves app.invoke and ends the process
Raise(n, what, err) ==
    /\ trace' = trace \o <<Event("node", n, n), Event("call", what, n),
                           Event("raise", what, n)>>
    /\ pc' = "crashed"
    /\ error' = err
    /\ UNCHANGED << state, node >>

Logged(call, ok) == call @@ [ ok |-> ok ]

Retrieve ==
    /\ pc = "node" /\ node = "retrieve"
    /\ LET r == retrieve(state, View(vectorstore))
       IN  /\ searchCalls' = Append(searchCalls, Logged(r.call, TRUE))
           /\ disk' = IndexAfter(disk, r.call)
           /\ vectorstore' = [ vectorstore EXCEPT !.snap = IndexAfter(@, r.call) ]
           /\ Advance("retrieve", r.update,
                      <<Event("call", "search", "retrieve"),
                        Event("return", "search", "retrieve")>>)
    /\ UNCHANGED << envVars, detVars, dirExists, built, app, loopVars, graderCalls,
                    generatorCalls, error >>

\* the embedding service or the index is unreachable
RetrieveFails ==
    /\ pc = "node" /\ node = "retrieve"
    /\ LET r == retrieve(state, {})
       IN  searchCalls' = Append(searchCalls, Logged(r.call, FALSE))
    /\ Raise("retrieve", "search", "retrieval failed")
    /\ UNCHANGED << envVars, detVars, indexVars, app, loopVars, graderCalls, generatorCalls >>

GradeWith(responses) ==
    /\ pc = "node" /\ node = "grade"
    /\ \E response \in responses :
          LET r == grade(state, response)
          IN  /\ graderCalls' = Append(graderCalls, Logged(r.call, TRUE))
              /\ Advance("grade", r.update,
                         <<Event("call", "grader", "grade"),
                           Event("return", "grader", "grade")>>)
    /\ UNCHANGED << envVars, detVars, indexVars, app, loopVars, searchCalls, generatorCalls, error >>

Grade == GradeWith(SampleResponses)

\* the classification call raises
GradeFails ==
    /\ pc = "node" /\ node = "grade"
    /\ LET r == grade(state, <<>>)
       IN  graderCalls' = Append(graderCalls, Logged(r.call, FALSE))
    /\ Raise("grade", "grader", "classification failed")
    /\ UNCHANGED << envVars, detVars, indexVars, app, loopVars, searchCalls, generatorCalls >>

Generate ==
    /\ pc = "node" /\ node = "generate"
    /\ \E response \in Answers :
          LET r == generate(state, response)
          IN  /\ generatorCalls' = Append(generatorCalls, Logged(r.call, TRUE))
              /\ Advance("generate", r.update,
                         <<Event("call", "generator", "generate"),
                           Event("return", "generator", "generate")>>)
    /\ UNCHANGED << envVars, detVars, indexVars, app, loopVars, searchCalls, graderCalls, error >>

\* the generation call raises
GenerateFails ==
    /\ pc = "node" /\ node = "generate"
    /\ LET r == generate(state, "")
       IN  generatorCalls' = Append(generatorCalls, Logged(r.call, FALSE))
    /\ Raise("generate", "generator", "generation failed")
    /\ UNCHANGED << envVars, detVars, indexVars, app, loopVars, searchCalls, graderCalls >>

Fallback ==
    /\ pc = "node" /\ node = "fallback"
    /\ Advance("fallback", fallback(state).update, <<>>)
    /\ UNCHANGED << envVars, detVars, indexVars, app, loopVars, searchCalls, graderCalls,
                    generatorCalls, error >>

Next ==
    \/ ImportConfig
    \/ ImportGraph
    \/ MainBuild
    \/ MainBuildFails
    \/ MainSkipBuild
    \/ BuildGraph
    \/ ReadExit
    \/ ReadQuestion
    \/ Retrieve
    \/ RetrieveFails
    \/ Grade
    \/ GradeFails
    \/ Generate
    \/ GenerateFails
    \/ Fallback
    \/ PrintAnswer

Spec == Init /\ [][Next]_vars

(***************************************************************************)
(* The grader on its own: an invocation that has retrieved and is about to *)
(* grade, with the classifier free to answer any response of AllResponses. *)
(***************************************************************************)
InitGrade ==
    \E q \in { <<"h","i">>, <<>> }, idx \in OldIndexes :
        LET r == retrieve([ question |-> q ], idx)
        IN  /\ pc = "node"
            /\ environ = "sk-key"
            /\ dotenv = "unset"
            /\ dirAtStart = TRUE
            /\ diskAtStart = idx
            /\ dirExists = TRUE
            /\ disk = idx
            /\ vectorstore = [ loaded |-> TRUE, live |-> TRUE, snap |-> idx ]
            /\ built = FALSE
            /\ app = build_graph
            /\ prompts = 1
            /\ line = q
            /\ invocations = 1
            /\ state = r.update @@ [ question |-> q ]
            /\ node = "grade"
            /\ trace = << Event("node", "retrieve", "retrieve"),
                          Event("call", "search", "retrieve"),
                          Event("return", "search", "retrieve"),
                          Event("write", "retrieved_docs", "retrieve") >>
            /\ searchCalls = << Logged(r.call, TRUE) >>
            /\ graderCalls = <<>>
            /\ generatorCalls = <<>>
            /\ printed = NothingPrinted
            /\ error = NoError
            /\ classifierMemo = {}
            /\ generatorMemo = {}
            /\ history = {}

GradeAny == GradeWith(AllResponses)

NextGrade ==
    \/ GradeAny
    \/ GradeFails
    \/ Generate
    \/ GenerateFails
    \/ Fallback
    \/ PrintAnswer

SpecGrade == InitGrade /\ [][NextGrade]_vars

(***************************************************************************)
(* The program with deterministic external services: the classifier and    *)
(* the generation model answer a prompt they have seen before as they did  *)
(* then.  A session may ask one question more than MaxQuestions, so that a *)
(* question can be repeated with another one in between.                   *)
(***************************************************************************)
DetLines == { EXIT, <<>>, <<"h","i">> }
DetResponses == { RespYesSufficient, RespNo }
DetAnswers == { "Paris", "I don't know" }

\* what the service is sent: the template filled with question and context
Prompt(call) == [ question |-> call.question, context |-> call.context ]

\* the service may answer `response` to the prompt
Agrees(memo, prompt, response) ==
    \A m \in memo : m.prompt = prompt => m.response = response

Remember(memo, prompt, response) ==
    memo \cup { [ prompt |-> prompt, response |-> response ] }

\* what an invocation leaves in the state besides the question
Result(st) ==
    [ retrieved_docs |-> st.retrieved_docs,
      is_relevant    |-> st.is_relevant,
      generation     |-> st.generation ]

InitDet ==
    /\ Init
    /\ environ = "sk-key"
    /\ dotenv = "unset"

ReadQuestionDet == ReadQuestionFrom(DetLines, MaxQuestions + 1)

GradeDet ==
    /\ pc = "node" /\ node = "grade"
    /\ \E response \in DetResponses :
          LET r == grade(state, response)
          IN  /\ Agrees(classifierMemo, Prompt(r.call), response)
              /\ classifierMemo' = Remember(classifierMemo, Prompt(r.call), response)
              /\ graderCalls' = Append(graderCalls, Logged(r.call, TRUE))
              /\ Advance("grade", r.update,
                         <<Event("call", "grader", "grade"),
                           Event("return", "grader", "grade")>>)
    /\ UNCHANGED << envVars, indexVars, app, loopVars, searchCalls, generatorCalls,
                    error, generatorMemo, history >>

GenerateDet ==
    /\ pc = "node" /\ node = "generate"
    /\ \E response \in DetAnswers :
          LET r == generate(state, response)
          IN  /\ Agrees(generatorMemo, Prompt(r.call), response)
              /\ generatorMemo' = Remember(generatorMemo, Prompt(r.call), response)
              /\ generatorCalls' = Append(generatorCalls, Logged(r.call, TRUE))
              /\ Advance("generate", r.update,
                         <<Event("call", "generator", "generate"),
                           Event("return", "generator", "generate")>>)
    /\ UNCHANGED << envVars, indexVars, app, loopVars, searchCalls, graderCalls,
                    error, classifierMemo, history >>

\* main.py:34, with the finished invocation noted in the history
PrintAnswerDet ==
    /\ pc = "done"
    /\ printed' = state.generation
    /\ history' = history \cup { [ n |-> invocations, question |-> state.question,
                                   result |-> Result(state) ] }
    /\ pc' = "prompt"
    /\ UNCHANGED << envVars, indexVars, app, prompts, line, invocations, invokeVars,
                    error, classifierMemo, generatorMemo >>

NextDet ==
    \/ ImportConfig
    \/ ImportGraph
    \/ MainBuild
    \/ MainSkipBuild
    \/ BuildGraph
    \/ ReadExit
    \/ ReadQuestionDet
    \/ Retrieve
    \/ GradeDet
    \/ GenerateDet
    \/ Fallback
    \/ PrintAnswerDet

SpecDet == InitDet /\ [][NextDet]_vars

(***************************************************************************)
(* Properties.                                                             *)
(***************************************************************************)
Has(key) == key \in DOMAIN state

\* positions of the trace holding the event (ev, what)
Idx(ev, what) == { i \in 1..Len(trace) : trace[i].ev = ev /\ trace[i].what = what }

\* every position of B comes after some position of A
Before(A, B) == \A b \in B : \E a \in A : a < b

Terminal == pc = "done"

\* C1: when grade has set is_relevant to true, the fallback node does not
\* run, and the generation of the terminal state is what the one call of
\* generate_answer returned, a call made with the question of the invocation
\* and the very documents that were graded.
C1_RelevantAnswerIsGenerated ==
    (pc \in {"node", "done"} /\ Has("is_relevant") /\ state.is_relevant) =>
        /\ Idx("node", "fallback") = {}
        /\ Terminal =>
              /\ Len(generatorCalls) = 1
              /\ Len(graderCalls) = 1
              /\ generatorCalls[1].ok
              /\ generatorCalls[1].question = state.question
              /\ generatorCalls[1].question = line
              /\ generatorCalls[1].documents = state.retrieved_docs
              /\ generatorCalls[1].documents = graderCalls[1].documents
              /\ generatorCalls[1].documents = searchCalls[1].returned
              /\ state.generation = generatorCalls[1].response

C1_Witness ==
    /\ Terminal
    /\ Has("is_relevant") /\ state.is_relevant
    /\ Len(state.retrieved_docs) = DefaultK
    /\ state.generation = "Paris"

\* C2: when grade has set is_relevant to false, generate_answer is never
\* called, the fallback node calls no external service, and the generation
\* of the terminal state is exactly the fixed fallback string.
C2_IrrelevantAnswerIsFallback ==
    (pc \in {"node", "done"} /\ Has("is_relevant") /\ ~state.is_relevant) =>
        /\ generatorCalls = <<>>
        /\ Idx("node", "generate") = {}
        /\ \A i \in 1..Len(trace) : trace[i].by = "fallback" => trace[i].ev # "call"
        /\ Len(searchCalls) = 1 /\ Len(graderCalls) = 1
        /\ Terminal =>
              state.generation = "Sorry, I couldn't find relevant information."

C2_Witness ==
    /\ Terminal
    /\ Has("is_relevant") /\ ~state.is_relevant
    /\ Idx("node", "fallback") # {}
    /\ state.generation = FallbackText

\* C3: in one invocation retrieved_docs is written before the grader is
\* called, is_relevant is written before the branch is taken, the generator
\* is called only after the grader has returned, generation is written at
\* most once and by generate or fallback, never by both, and at the terminal
\* state it has been written exactly once.
C3_StepsAreOrdered ==
    /\ Before(Idx("write", "retrieved_docs"), Idx("call", "grader"))
    /\ Before(Idx("write", "is_relevant"),
              { i \in 1..Len(trace) : trace[i].ev = "branch" })
    /\ Before(Idx("return", "grader"), Idx("call", "generator"))
    /\ Cardinality(Idx("write", "generation")) <= 1
    /\ \A i \in Idx("write", "generation") : trace[i].by \in {"generate", "fallback"}
    /\ ~(Idx("node", "generate") # {} /\ Idx("node", "fallback") # {})
    /\ (pc = "node" /\ Has("generation")) => FALSE
    /\ Terminal =>
          /\ Cardinality(Idx("write", "generation")) = 1
          /\ Has("generation")
          /\ Cardinality(Idx("node", "generate") \cup Idx("node", "fallback")) = 1

C3_Witness ==
    /\ Terminal
    /\ Idx("call", "generator") # {}
    /\ Idx("write", "generation") # {}

\* the three letters y, e, s in either case, next to each other somewhere
HasYesAnywhere(text) ==
    \E i \in 1..(Len(text) - 2) :
        /\ text[i] \in {"y", "Y"}
        /\ text[i + 1] \in {"e", "E"}
        /\ text[i + 2] \in {"s", "S"}

\* C4: for every response of the classifier, grade_relevance gives true
\* exactly when the response holds "yes" somewhere, whatever the case of its
\* letters ("Yes, the context is sufficient." and "Yesterday's context is
\* unrelated." give true, "No." gives false), and the branch that leaves
\* grade goes to generate for exactly those responses.
C4_YesSubstringDecides ==
    (graderCalls # <<>> /\ graderCalls[1].ok) =>
        LET response == graderCalls[1].response
        IN  /\ state.is_relevant = HasYesAnywhere(response)
            /\ response = RespYesSufficient => state.is_relevant
            /\ response = RespNo => ~state.is_relevant
            /\ response = RespYesterday => state.is_relevant
            /\ Idx("branch", "generate") # {} <=> HasYesAnywhere(response)
            /\ Idx("branch", "fallback") # {} <=> ~HasYesAnywhere(response)
            /\ Idx("node", "generate") # {} => HasYesAnywhere(response)
            /\ Idx("node", "fallback") # {} => ~HasYesAnywhere(response)

C4_Witness ==
    /\ graderCalls # <<>>
    /\ graderCalls[1].response = RespYesterday
    /\ state.is_relevant
    /\ Idx("node", "generate") # {}

\* C5: the retrieve step makes exactly one similarity search, for the
\* question and for exactly 4 documents, and retrieved_docs is what the
\* index returned, unchanged: the first 4 documents of the index's ranking
\* (all of them when the index holds fewer), in the index's order.
C5_RetrieverPassesThrough ==
    (pc \in {"node", "done"} /\ Has("retrieved_docs")) =>
        LET index == View(vectorstore)
            n     == IF Cardinality(index) < 4 THEN Cardinality(index) ELSE 4
        IN  /\ Len(searchCalls) = 1
            /\ searchCalls[1].k = 4
            /\ searchCalls[1].query = state.question
            /\ state.retrieved_docs = searchCalls[1].returned
            /\ Len(state.retrieved_docs) = n
            /\ \A i \in 1..n : state.retrieved_docs[i] = Ranked(index, state.question)[i]

C5_Witness ==
    /\ Terminal
    /\ Cardinality(View(vectorstore)) = BigIndex
    /\ Len(state.retrieved_docs) = 4
    /\ state.retrieved_docs # <<1, 2, 3, 4>>

InLoop == pc \in {"prompt", "node", "done", "exited"}

\* C6: when ./chroma_db is absent at startup the index is built from the
\* seed document and the handle the retrieve node queries holds that
\* document; when it is present nothing is built and the collection is left
\* as it was; and no question is retrieved against before that.
C6_SeedIndexBuiltWhenAbsent ==
    /\ InLoop =>
          IF dirAtStart
          THEN ~built /\ disk = diskAtStart /\ View(vectorstore) = diskAtStart
          ELSE built /\ SeedDoc \in disk /\ SeedDoc \in View(vectorstore)
    /\ searchCalls # <<>> => (vectorstore.loaded /\ app # NoGraph /\ dirExists)

\* the word exit, each letter in either case
ExitWord(l) ==
    /\ Len(l) = 4
    /\ l[1] \in {"e", "E"}
    /\ l[2] \in {"x", "X"}
    /\ l[3] \in {"i", "I"}
    /\ l[4] \in {"t", "T"}

\* C7: at the prompt, a line that is "exit" in any case ends the loop and
\* invokes nothing; any other line (the empty line, a line with more than
\* the word exit) becomes the question of exactly one invocation; the
\* generation of a finished invocation is printed and the prompt comes next.
C7_LoopProtocol ==
    [][ /\ pc = "prompt" =>
              /\ prompts' = prompts + 1
              /\ IF ExitWord(line')
                 THEN /\ pc' = "exited"
                      /\ invocations' = invocations
                      /\ UNCHANGED << state, trace, searchCalls, graderCalls,
                                      generatorCalls, printed >>
                 ELSE /\ pc' = "node"
                      /\ invocations' = invocations + 1
                      /\ state' = [ question |-> line' ]
                      /\ node' = "retrieve"
        /\ invocations' # invocations => pc = "prompt"
        /\ pc = "done" =>
              /\ printed' = state.generation
              /\ pc' = "prompt"
              /\ invocations' = invocations
        /\ printed' # printed => pc = "done"
        /\ pc = "exited" => pc' = "exited"
      ]_vars

C7_Witness ==
    /\ pc = "exited"
    /\ line = <<"E","x","i","T">>
    /\ invocations = MaxQuestions
    /\ state.question = <<" ","e","x","i","t">>
    /\ printed = state.generation

\* C8: when the credential is unset or empty in the environment that
\* config.py reads, startup ends with the configuration error, and at that
\* point no index has been loaded or built, no graph has been built, no
\* external call has been made and no prompt has been shown.
C8_MissingKeyFailsFirst ==
    /\ (pc # "start" /\ environ \in {"unset", "empty"}) =>
          (pc = "crashed" /\ error = ConfigError)
    /\ error = ConfigError =>
          /\ pc = "crashed"
          /\ environ \in {"unset", "empty"}
          /\ ~vectorstore.loaded
          /\ ~built
          /\ dirExists = dirAtStart /\ disk = diskAtStart
          /\ app = NoGraph
          /\ prompts = 0 /\ invocations = 0
          /\ searchCalls = <<>> /\ graderCalls = <<>> /\ generatorCalls = <<>>
          /\ printed = NothingPrinted

C8_Witness ==
    /\ pc = "crashed"
    /\ error = ConfigError
    /\ environ = "empty"
    /\ dotenv = "sk-key"

InvocationErrors == { "retrieval failed", "classification failed", "generation failed" }

\* C9: an error raised by an invocation is caught at the loop and the
\* session goes on: the process does not end with it.
C9_InvocationErrorCaught ==
    error \in InvocationErrors => pc # "crashed"

\* C10: when the index is unreachable or empty at the retrieve step, the
\* invocation ends with an index error: the grader and the generator are
\* not called and no generation is produced.
C10_EmptyIndexIsFatal ==
    (pc \in {"node", "done", "crashed"} /\ searchCalls # <<>>
        /\ (~searchCalls[1].ok \/ View(vectorstore) = {})) =>
        /\ graderCalls = <<>>
        /\ generatorCalls = <<>>
        /\ ~Has("generation")
        /\ pc # "node" => (pc = "crashed" /\ error = "retrieval failed")

(***************************************************************************)
(* The program when every external call of an invocation returns: the      *)
(* failing variants of the node actions are left out.  The process is one  *)
(* synchronous thread, so a node that can run does run.                    *)
(***************************************************************************)
NextReturns ==
    \/ ImportConfig
    \/ ImportGraph
    \/ MainBuild
    \/ MainBuildFails
    \/ MainSkipBuild
    \/ BuildGraph
    \/ ReadExit
    \/ ReadQuestion
    \/ Retrieve
    \/ Grade
    \/ Generate
    \/ Fallback
    \/ PrintAnswer

SpecReturns ==
    /\ Init
    /\ [][NextReturns]_vars
    /\ WF_vars(Retrieve)
    /\ WF_vars(Grade)
    /\ WF_vars(Generate)
    /\ WF_vars(Fallback)

IsNodeEvent(e) == e.ev = "node"

\* the nodes the invocation has run, in order
NodesRun == [ i \in 1..Len(SelectSeq(trace, IsNodeEvent)) |->
                SelectSeq(trace, IsNodeEvent)[i].what ]

NodeNames == {"retrieve", "grade", "generate", "fallback"}

\* C11: when every external call returns, an invocation reaches the terminal
\* state, having run exactly retrieve, grade and then one of generate and
\* fallback; no node runs twice, and generate and fallback lead to END only.
C11_ThreeNodesThenDone ==
    /\ [](/\ \A n \in NodeNames : Cardinality(Idx("node", n)) <= 1
          /\ (pc = "node" /\ NodesRun # <<>>) =>
                \/ NodesRun = <<"retrieve">> /\ node = "grade"
                \/ NodesRun = <<"retrieve", "grade">> /\ node \in {"generate", "fallback"}
          /\ Terminal =>
                /\ Len(NodesRun) = 3
                /\ NodesRun[1] = "retrieve"
                /\ NodesRun[2] = "grade"
                /\ NodesRun[3] \in {"generate", "fallback"}
                /\ node = END
          /\ app # NoGraph =>
                /\ app.edges["generate"] = END
                /\ app.edges["fallback"] = END
                /\ app.edges["retrieve"] = "grade")
    /\ (pc = "node") ~> Terminal

C11_Witness ==
    /\ Terminal
    /\ NodesRun = <<"retrieve", "grade", "fallback">>
    /\ invocations = MaxQuestions

\* the field a node writes
FieldOf(n) ==
    CASE n = "retrieve" -> "retrieved_docs"
      [] n = "grade"    -> "is_relevant"
      [] OTHER          -> "generation"

\* C12: an invocation starts with only question in the state; retrieve
\* writes only retrieved_docs, grade only is_relevant, generate and fallback
\* only generation; a step leaves every other field as it was, question
\* included; and no field is written twice in one invocation.
C12_SingleWriterWriteOnce ==
    /\ [](/\ \A i \in 1..Len(trace) :
                trace[i].ev = "write" => trace[i].what = FieldOf(trace[i].by)
          /\ \A f \in {"question", "retrieved_docs", "is_relevant", "generation"} :
                Cardinality(Idx("write", f)) <= 1
          /\ Idx("write", "question") = {}
          /\ (pc = "node" /\ trace = <<>>) => state = [ question |-> line ])
    /\ [][ /\ (pc = "node" /\ pc' \in {"node", "done"}) =>
                 /\ FieldOf(node) \notin DOMAIN state
                 /\ DOMAIN state' = DOMAIN state \cup { FieldOf(node) }
                 /\ \A key \in DOMAIN state : state'[key] = state[key]
           /\ (pc = "node" /\ pc' = "crashed") => state' = state
           /\ (pc # "node" /\ state' # state) =>
                 /\ pc = "prompt"
                 /\ DOMAIN state' = {"question"}
                 /\ state'.question = line'
         ]_vars

C12_Witness ==
    /\ Terminal
    /\ DOMAIN state = {"question", "retrieved_docs", "is_relevant", "generation"}
    /\ state.retrieved_docs # <<>>
    /\ state.question = <<"h","i">>
    /\ invocations = MaxQuestions

\* the last event of the trace
LastEvent == trace[Len(trace)]

\* C13: a classification or generation call that fails is made once and not
\* again, no later node runs, generation is not written (the fallback text
\* does not stand in for the answer) and the error leaves the invocation;
\* the fallback node runs only after the grader has returned false.
C13_FailureIsNotRetried ==
    /\ error = "classification failed" =>
          /\ Len(graderCalls) = 1 /\ ~graderCalls[1].ok
          /\ Cardinality(Idx("call", "grader")) = 1
          /\ generatorCalls = <<>>
          /\ NodesRun = <<"retrieve", "grade">>
          /\ LastEvent = Event("raise", "grader", "grade")
          /\ ~Has("is_relevant") /\ ~Has("generation")
          /\ Idx("write", "generation") = {}
          /\ pc = "crashed"
    /\ error = "generation failed" =>
          /\ Len(generatorCalls) = 1 /\ ~generatorCalls[1].ok
          /\ Cardinality(Idx("call", "generator")) = 1
          /\ Len(graderCalls) = 1
          /\ NodesRun = <<"retrieve", "grade", "generate">>
          /\ LastEvent = Event("raise", "generator", "generate")
          /\ ~Has("generation")
          /\ Idx("write", "generation") = {}
          /\ pc = "crashed"
    /\ Idx("node", "fallback") # {} =>
          /\ Len(graderCalls) = 1 /\ graderCalls[1].ok
          /\ Has("is_relevant") /\ ~state.is_relevant
          /\ error = NoError

C13_Witness ==
    /\ error = "generation failed"
    /\ pc = "crashed"
    /\ state.is_relevant
    /\ invocations = MaxQuestions

\* C16: an empty retrieval that did not raise is graded like any other: the
\* node after retrieve is grade, the grader is called once with no
\* documents, is_relevant is what the response says, and an invocation with
\* no documents goes on to generate exactly when the response holds "yes".
C16_EmptyRetrievalIsGraded ==
    (pc \in {"node", "done"} /\ Has("retrieved_docs") /\ state.retrieved_docs = <<>>) =>
        /\ ~Has("is_relevant") => (node = "grade" /\ NodesRun = <<"retrieve">>)
        /\ Has("is_relevant") =>
              /\ Len(graderCalls) = 1
              /\ graderCalls[1].documents = <<>>
              /\ graderCalls[1].context.parts = <<>>
              /\ state.is_relevant = HasYesAnywhere(graderCalls[1].response)
              /\ Idx("branch", "generate") # {} <=> HasYesAnywhere(graderCalls[1].response)
              /\ Idx("branch", "fallback") # {} <=> ~HasYesAnywhere(graderCalls[1].response)
        /\ \A i \in 1..Len(generatorCalls) : generatorCalls[i].documents = <<>>

C16_Witness ==
    /\ Terminal
    /\ state.retrieved_docs = <<>>
    /\ searchCalls[1].ok
    /\ graderCalls[1].response = RespYesterday
    /\ NodesRun = <<"retrieve", "grade", "generate">>
    /\ state.generation = "Paris"

\* C15: once the loop has started, no step changes the index: the persisted
\* collection, the handle and the directory stay as they were when the first
\* prompt was shown, and the only call the workflow makes on the index is
\* the similarity search of the retrieve step.
C15_IndexIsReadOnlyInLoop ==
    /\ [](\A i \in 1..Len(searchCalls) : searchCalls[i].op = "similarity_search")
    /\ [][ /\ pc \in {"prompt", "node", "done"} =>
                 /\ disk' = disk
                 /\ vectorstore' = vectorstore
                 /\ dirExists' = dirExists
                 /\ built' = built
           /\ Len(searchCalls') > Len(searchCalls) =>
                 (pc = "node" /\ node = "retrieve")
         ]_vars

C15_Witness ==
    /\ pc = "prompt"
    /\ invocations = MaxQuestions
    /\ View(vectorstore) = 1..BigIndex
    /\ disk = diskAtStart

\* C14: with deterministic services and an unchanged index, an invocation
\* gives the retrieved_docs (in order), is_relevant and generation that every
\* earlier invocation of the session with the same question gave, whatever
\* was asked in between; and an invocation starts from the question alone,
\* with nothing of an earlier invocation in its state.
C14_SameQuestionSameResult ==
    /\ Terminal =>
          \A h \in history :
              h.question = state.question => h.result = Result(state)
    /\ \A g \in history, h \in history :
          g.question = h.question => g.result = h.result
    /\ (pc = "node" /\ trace = <<>>) =>
          /\ DOMAIN state = {"question"}
          /\ state.question = line
          /\ searchCalls = <<>> /\ graderCalls = <<>> /\ generatorCalls = <<>>
    /\ (pc = "node" /\ ~Has("is_relevant")) => ~Has("generation")

C14_Witness ==
    /\ Terminal
    /\ invocations = MaxQuestions + 1
    /\ state.is_relevant
    /\ state.retrieved_docs # <<>>
    /\ \E g \in history, h \in history :
          /\ g.n = 1 /\ g.question = state.question /\ g.result = Result(state)
          /\ h.n = 2 /\ h.question # state.question /\ ~h.result.is_relevant

====
